---- MODULE Spec2Model ----
(***************************************************************************)
(* Sliding-window request counters of the FastAPI examples:                *)
(*   - RateLimitMiddleware (skills/fastapi/examples/middleware_examples.py) *)
(*   - the rate_limit dependency (skills/fastapi/examples/                  *)
(*     auth_dependencies.py)                                                *)
(* The two live in two independent example applications; a behaviour of    *)
(* Spec is a run of one of them (variable app).  Both run on one asyncio   *)
(* event loop: a task keeps the loop (variable running) from one           *)
(* suspension point to the next, and wall-clock time passes meanwhile.     *)
(* The other examples of the repository have specifications of their own   *)
(* (SpecAuth, ...), in which the counters stay off.                        *)
(***************************************************************************)
EXTENDS Integers, Sequences, FiniteSets, TLC

\* ---------------------------------------------------------------- bounds
\* Number of request-handling tasks that may be in flight together.
NumTasks == 2
\* The clock stops advancing at MaxTime seconds.
MaxTime == 90
\* The clock advances in steps of TickSeconds seconds.
TickSeconds == 30
\* Largest requests_per_minute a RateLimitMiddleware is constructed with.
MaxRpm == 2
\* RATE_LIMIT = 100 in auth_dependencies.py:282, scaled down.
RATE_LIMIT == 1
\* Number of sessions the session factory of DBSessionMiddleware hands out.
MaxSessions == 3
\* Number of UPDATE statements the items table of the CRUD router receives.
MaxUpdates == 2

\* ------------------------------------------------------ program constants
\* auth_dependencies.py:283
RATE_WINDOW == 60
\* the literal of middleware_examples.py:166 (window_start = now - 60)
MwWindow == 60

Tasks == 1..NumTasks
NoTask == 0
\* Python's None, where a string is expected
None == "<None>"
NoClient == "none"
NoUser == "none"
Clients == {"h1", NoClient}
DepClients == {"h1"}
Users == {"u1", NoUser}
Paths == {"/api", "/health"}
\* requests_per_minute values a RateLimitMiddleware may be constructed with:
\* __init__ stores whatever it is given.
ConfigLimits == (0 - 1)..MaxRpm

VARIABLES
  app,                  \* "mw" or "dep": which example application runs
  requests_per_minute,  \* RateLimitMiddleware.requests_per_minute
  request_counts,       \* the defaultdict(list): key -> list of timestamps
  lock,                 \* RateLimitMiddleware._lock: the holding task, or NoTask
  clock,                \* time.time()
  running,              \* the task that has the event loop, or NoTask
  tasks,                \* per task: position and local variables
  admitted,             \* history: key -> every timestamp ever appended
  last_rejected,        \* the latest rejected check: key, now, 429 and header
  auth,                 \* the latest call of an authentication dependency
  http,                 \* the request travelling through create_app's stack
  session,              \* the request and session of DBSessionMiddleware
  crud,                 \* the items table of the CRUD router, and its latest call
  bulk,                 \* full_server.py: the databases and process_bulk_orders
  pair                  \* the two counters fed the same observations

\* the variables of the two counters
limiters == <<app, requests_per_minute, request_counts, lock, clock, running,
              tasks, admitted, last_rejected>>

\* the variables of the other examples
examples == <<auth, http, session, crud, bulk, pair>>

vars == <<app, requests_per_minute, request_counts, lock, clock, running,
          tasks, admitted, last_rejected, auth, http, session, crud, bulk,
          pair>>

\* ------------------------------------------------------------- dictionary
EmptyDict == [k \in {} |-> <<>>]

\* d[k] of a defaultdict(list), as a value: the list, or [] for a new key.
Get(d, k) == IF k \in DOMAIN d THEN d[k] ELSE <<>>

Put(d, k, v) == [x \in (DOMAIN d) \cup {k} |-> IF x = k THEN v ELSE d[x]]

\* ------------------------------------------------------- the two counters
\* Mutant of MwClean: the comparison keeps the timestamp on the boundary.
MwCleanKeepsBoundary(ts, window_start) ==
  SelectSeq(ts, LAMBDA x : x >= window_start)

\* Mutant of MwClean: nothing is purged.
MwCleanNothing(ts, window_start) == ts

\* [t for t in self.request_counts[client_ip] if t > window_start]
MwClean(ts, window_start) == SelectSeq(ts, LAMBDA x : x > window_start)

\* Mutant of DepClean: the comparison keeps the timestamp on the boundary.
DepCleanKeepsBoundary(ts, window_start) ==
  SelectSeq(ts, LAMBDA x : x >= window_start)

\* [t for t in request_counts[key] if t > window_start]
DepClean(ts, window_start) == SelectSeq(ts, LAMBDA x : x > window_start)

\* Mutant of MwWindowStart: the purge uses a window of one tick.
MwWindowStartShort(now) == now - TickSeconds

\* window_start = now - 60
MwWindowStart(now) == now - MwWindow

\* Mutant of DepWindowStart: RATE_WINDOW is no longer the 60 seconds that
\* the middleware hard-codes.
DepWindowStartShort(now) == now - TickSeconds

\* window_start = now - RATE_WINDOW
DepWindowStart(now) == now - RATE_WINDOW

\* Mutant of MwOverLimit: off by one, > for >=.
MwOverLimitStrict(ts) == Len(ts) > requests_per_minute

\* len(self.request_counts[client_ip]) >= self.requests_per_minute
MwOverLimit(ts) == Len(ts) >= requests_per_minute

\* Mutant of DepOverLimit: off by one, > for >=.
DepOverLimitStrict(ts, limit) == Len(ts) > limit

\* len(request_counts[key]) >= limit
DepOverLimit(ts, limit) == Len(ts) >= limit

\* client_ip = request.client.host if request.client else "unknown"
ClientIp(client) == IF client # NoClient THEN client ELSE "unknown"

\* key and limit of the dependency: user id if authenticated, otherwise IP
DepKey(user, client) ==
  IF user # NoUser THEN "user:" \o user ELSE "ip:" \o client

\* Mutant of DepLimit: the doubled limit is given to every caller.
DepLimitDoubledForAll(user) == RATE_LIMIT * 2

DepLimit(user) == IF user # NoUser THEN RATE_LIMIT * 2 ELSE RATE_LIMIT

\* exclude_paths or ["/health", "/docs", "/openapi.json"]
ExcludePaths == {"/health", "/docs", "/openapi.json"}

\* ------------------------------------------------------- header values
\* A header value is a string; here it is the sequence of its characters.
Digits == <<"0", "1", "2", "3", "4", "5", "6", "7", "8", "9">>

\* str(n) for a non-negative int: its decimal digits
RECURSIVE Str(_)
Str(n) ==
  IF n < 10 THEN <<Digits[n + 1]>>
  ELSE Str(n \div 10) \o <<Digits[(n % 10) + 1]>>

\* line 180 of the middleware: headers={"Retry-After": "60"}
MwRetryAfter == <<"6", "0">>

\* line 311 of the dependency: headers={"Retry-After": str(RATE_WINDOW)}
DepRetryAfter == Str(RATE_WINDOW)

\* ------------------------------------------------------------------ tasks
\* no check has been rejected yet
NoRejection ==
  [key |-> "", now |-> 0 - 1, status_code |-> 0, retry_after |-> <<>>]

NoSnapshot == [present |-> FALSE, ts |-> <<>>]

IdleTask == [pc |-> "idle", key |-> "", limit |-> 0, now |-> 0,
             window_start |-> 0, pre |-> NoSnapshot]

\* the record of key k as the call found it
Snapshot(k) == [present |-> k \in DOMAIN request_counts,
                ts |-> Get(request_counts, k)]

\* the limit a task's check compares with
LimitOf(t) == IF app = "mw" THEN requests_per_minute ELSE tasks[t].limit

\* no authentication dependency has been called
NoCall == [fn |-> "none"]

\* no request is in the middleware stack of create_app
NoRequest == [phase |-> "idle"]

\* a method of the session, or call_next, that has not been called
NotCalled == "<not called>"

\* a task that has no request in DBSessionMiddleware
NoDbRequest ==
  [pc |-> "idle", sid |-> 0, state_db |-> 0, call_next |-> NotCalled,
   commit |-> NotCalled, rollback |-> NotCalled, raised |-> None,
   closed |-> FALSE]

\* no request is in DBSessionMiddleware; the factory has made no session
NoSession == [next_id |-> 1, reqs |-> [t \in Tasks |-> NoDbRequest]]

\* the items table of the CRUD router when it starts: one item, of user 1.
\* A nullable column is the set of the value it holds: empty for NULL.
FirstItem ==
  [id |-> 1, owner_id |-> 1, name |-> {"a"}, description |-> {},
   price |-> {5}, is_available |-> {TRUE}, created_at |-> 0,
   updated_at |-> {}]

\* no request has reached the CRUD router
NoUpdate == [fn |-> "none"]

CrudStart == [items |-> (1 :> FirstItem), now |-> 1, last |-> NoUpdate]

\* the other examples have not been used
\* full_server.py before any tool call: both simulated databases are empty
\* and process_bulk_orders is not running.  A dict is the set of its
\* (key, value) entries; the result is a set of at most one record.
NoBulk ==
  [customers_db |-> {}, orders_db |-> {}, pc |-> "idle", orders |-> <<>>,
   i |-> 0, successful |-> <<>>, failed |-> <<>>, before |-> {},
   result |-> {}]

\* the two counters side by side before any observation: the middleware's
\* self.request_counts and the dependency's module-level request_counts
NoObservation ==
  [key |-> "", now |-> 0, mw_admitted |-> TRUE, dep_admitted |-> TRUE,
   observed |-> FALSE]

NoPair == [mw |-> EmptyDict, dep |-> EmptyDict, last |-> NoObservation]

ExamplesOff ==
  /\ pair = NoPair
  /\ bulk = NoBulk
  /\ crud = CrudStart
  /\ auth = NoCall
  /\ http = NoRequest
  /\ session = NoSession

Init ==
  /\ app \in {"mw", "dep"}
  /\ requests_per_minute \in (IF app = "mw" THEN ConfigLimits ELSE {0})
  /\ request_counts = EmptyDict
  /\ lock = NoTask
  /\ clock = 0
  /\ running = NoTask
  /\ tasks = [t \in Tasks |-> IdleTask]
  /\ admitted = EmptyDict
  /\ last_rejected = NoRejection
  /\ ExamplesOff

\* a state in which neither counter's application runs
LimitersOff ==
  /\ app = "none"
  /\ requests_per_minute = 0
  /\ request_counts = EmptyDict
  /\ lock = NoTask
  /\ clock = 0
  /\ running = NoTask
  /\ tasks = [t \in Tasks |-> IdleTask]
  /\ admitted = EmptyDict
  /\ last_rejected = NoRejection

\* time.time() moves on, at any moment, also while a task runs.  The clock
\* never goes back: the counters assume non-decreasing arrival times.
Tick ==
  /\ clock + TickSeconds <= MaxTime
  /\ clock' = clock + TickSeconds
  /\ UNCHANGED <<examples, app,
                 requests_per_minute, request_counts, lock, running,
                 tasks, admitted,
                 last_rejected>>

\* ------------------------------------------- RateLimitMiddleware.dispatch
\* A request reaches dispatch (lines 159-162).  A request for an excluded
\* path goes straight to call_next.
MwStart(t, client, path) ==
  /\ app = "mw"
  /\ running = NoTask
  /\ tasks[t].pc = "idle"
  /\ IF path \in ExcludePaths
       THEN /\ tasks' = [tasks EXCEPT ![t] =
                           [IdleTask EXCEPT !.pc = "call_next"]]
            /\ UNCHANGED running
       ELSE /\ tasks' = [tasks EXCEPT ![t] =
                           [IdleTask EXCEPT !.pc = "sample",
                                            !.key = ClientIp(client)]]
            /\ running' = t
  /\ UNCHANGED <<examples, app,
                 requests_per_minute, request_counts, lock, clock,
                 admitted,
                 last_rejected>>

\* lines 164-166: client_ip, now = time.time(), window_start = now - 60
MwSample(t) ==
  /\ app = "mw"
  /\ running = t
  /\ tasks[t].pc = "sample"
  /\ tasks' = [tasks EXCEPT ![t].pc = "acquire",
                            ![t].now = clock,
                            ![t].window_start = MwWindowStart(clock),
                            ![t].pre = Snapshot(tasks[t].key)]
  /\ UNCHANGED <<examples, app,
                 requests_per_minute, request_counts, lock, clock,
                 running, admitted,
                 last_rejected>>

\* Mutant of MwAcquire: the with block is entered without taking the lock.
MwAcquireNoLock(t) ==
  /\ app = "mw"
  /\ running = t
  /\ tasks[t].pc = "acquire"
  /\ tasks' = [tasks EXCEPT ![t].pc = "purge"]
  /\ UNCHANGED <<examples, app,
                 requests_per_minute, request_counts, lock, clock,
                 running, admitted, last_rejected>>

\* Mutant of MwAcquire: acquiring the lock always gives up the event loop
\* once, also when the lock is free.
MwAcquireYields(t) ==
  /\ app = "mw"
  /\ \/ /\ running = t
        /\ tasks[t].pc = "acquire"
        /\ running' = NoTask
        /\ tasks' = [tasks EXCEPT ![t].pc = "waiting"]
        /\ UNCHANGED lock
     \/ /\ running = NoTask
        /\ tasks[t].pc = "waiting"
        /\ lock = NoTask
        /\ lock' = t
        /\ running' = t
        /\ tasks' = [tasks EXCEPT ![t].pc = "purge"]
  /\ UNCHANGED <<examples, app,
                 requests_per_minute, request_counts, clock, admitted,
                 last_rejected>>

\* line 168: async with self._lock.  asyncio.Lock.acquire takes a free lock
\* without suspending; a task that finds it held suspends until it is free.
MwAcquire(t) ==
  /\ app = "mw"
  /\ \/ running = t /\ tasks[t].pc = "acquire"
     \/ running = NoTask /\ tasks[t].pc = "waiting" /\ lock = NoTask
  /\ IF lock = NoTask
       THEN /\ lock' = t
            /\ running' = t
            /\ tasks' = [tasks EXCEPT ![t].pc = "purge"]
       ELSE /\ running' = NoTask
            /\ tasks' = [tasks EXCEPT ![t].pc = "waiting"]
            /\ UNCHANGED lock
  /\ UNCHANGED <<examples, app,
                 requests_per_minute, request_counts, clock, admitted,
                 last_rejected>>

\* Mutant of MwPurge: the clean-up runs over every key of the map.
MwPurgeEveryKey(t) ==
  /\ app = "mw"
  /\ running = t
  /\ tasks[t].pc = "purge"
  /\ request_counts' =
       [k \in (DOMAIN request_counts) \cup {tasks[t].key} |->
          MwClean(Get(request_counts, k), tasks[t].window_start)]
  /\ tasks' = [tasks EXCEPT ![t].pc = "count"]
  /\ UNCHANGED <<examples, app,
                 requests_per_minute, lock, clock, running, admitted,
                 last_rejected>>

\* Mutant of MwPurge: the clean-up ends at a suspension point, inside the
\* with block.
MwPurgeYields(t) ==
  /\ app = "mw"
  /\ running = t
  /\ tasks[t].pc = "purge"
  /\ request_counts' =
       Put(request_counts, tasks[t].key,
           MwClean(Get(request_counts, tasks[t].key), tasks[t].window_start))
  /\ running' = NoTask
  /\ tasks' = [tasks EXCEPT ![t].pc = "count"]
  /\ UNCHANGED <<examples, app, requests_per_minute, lock, clock, admitted,
                 last_rejected>>

\* lines 170-172: clean old entries
MwPurge(t) ==
  /\ app = "mw"
  /\ running = t
  /\ tasks[t].pc = "purge"
  /\ request_counts' =
       Put(request_counts, tasks[t].key,
           MwClean(Get(request_counts, tasks[t].key), tasks[t].window_start))
  /\ tasks' = [tasks EXCEPT ![t].pc = "count"]
  /\ UNCHANGED <<examples, app,
                 requests_per_minute, lock, clock, running, admitted,
                 last_rejected>>

\* line 175: check rate limit
MwCount(t) ==
  /\ app = "mw"
  /\ running = t
  /\ tasks[t].pc = "count"
  /\ tasks' = [tasks EXCEPT ![t].pc =
                 IF MwOverLimit(Get(request_counts, tasks[t].key))
                   THEN "reject" ELSE "append"]
  /\ UNCHANGED <<examples, app,
                 requests_per_minute, request_counts, lock, clock,
                 running, admitted,
                 last_rejected>>

\* Mutant of MwReject: the rejected request is recorded too.
MwRejectCounted(t) ==
  /\ app = "mw"
  /\ running = t
  /\ tasks[t].pc = "reject"
  /\ request_counts' =
       Put(request_counts, tasks[t].key,
           Append(Get(request_counts, tasks[t].key), tasks[t].now))
  /\ lock' = IF lock = t THEN NoTask ELSE lock
  /\ running' = NoTask
  /\ last_rejected' = [key |-> tasks[t].key, now |-> tasks[t].now,
                       status_code |-> 429, retry_after |-> MwRetryAfter]
  /\ tasks' = [tasks EXCEPT ![t] = IdleTask]
  /\ UNCHANGED <<examples, app, requests_per_minute, clock, admitted>>

\* Mutant of MwReject: the 429 return leaves the with block without
\* releasing the lock.
MwRejectLockHeld(t) ==
  /\ app = "mw"
  /\ running = t
  /\ tasks[t].pc = "reject"
  /\ running' = NoTask
  /\ last_rejected' = [key |-> tasks[t].key, now |-> tasks[t].now,
                       status_code |-> 429, retry_after |-> MwRetryAfter]
  /\ tasks' = [tasks EXCEPT ![t] = IdleTask]
  /\ UNCHANGED <<examples, app,
                 requests_per_minute, request_counts, lock, clock,
                 admitted>>

\* lines 176-181: return the 429 response; leaving the with block releases
\* the lock.
MwReject(t) ==
  /\ app = "mw"
  /\ running = t
  /\ tasks[t].pc = "reject"
  /\ lock' = IF lock = t THEN NoTask ELSE lock
  /\ running' = NoTask
  /\ last_rejected' = [key |-> tasks[t].key, now |-> tasks[t].now,
                       status_code |-> 429, retry_after |-> MwRetryAfter]
  /\ tasks' = [tasks EXCEPT ![t] = IdleTask]
  /\ UNCHANGED <<examples, app,
                 requests_per_minute, request_counts, clock, admitted>>

\* line 184: record request
MwAppend(t) ==
  /\ app = "mw"
  /\ running = t
  /\ tasks[t].pc = "append"
  /\ request_counts' =
       Put(request_counts, tasks[t].key,
           Append(Get(request_counts, tasks[t].key), tasks[t].now))
  /\ admitted' =
       Put(admitted, tasks[t].key,
           Append(Get(admitted, tasks[t].key), tasks[t].now))
  /\ tasks' = [tasks EXCEPT ![t].pc = "release"]
  /\ UNCHANGED <<examples, app, requests_per_minute, lock, clock, running,
                 last_rejected>>

\* Mutant of MwRelease: call_next is awaited inside the with block, so the
\* task suspends with the lock held.
MwReleaseLockHeld(t) ==
  /\ app = "mw"
  /\ running = t
  /\ tasks[t].pc = "release"
  /\ running' = NoTask
  /\ tasks' = [tasks EXCEPT ![t].pc = "call_next"]
  /\ UNCHANGED <<examples, app,
                 requests_per_minute, request_counts, lock, clock,
                 admitted, last_rejected>>

\* the end of the with block (line 184 to 186): release the lock, then
\* await call_next(request), which suspends the task.
MwRelease(t) ==
  /\ app = "mw"
  /\ running = t
  /\ tasks[t].pc = "release"
  /\ lock' = IF lock = t THEN NoTask ELSE lock
  /\ running' = NoTask
  /\ tasks' = [tasks EXCEPT ![t] = [IdleTask EXCEPT !.pc = "call_next"]]
  /\ UNCHANGED <<examples, app,
                 requests_per_minute, request_counts, clock, admitted,
                 last_rejected>>

\* lines 162 and 186: call_next returns and dispatch returns its response
MwCallNextReturn(t) ==
  /\ app = "mw"
  /\ running = NoTask
  /\ tasks[t].pc = "call_next"
  /\ tasks' = [tasks EXCEPT ![t] = IdleTask]
  /\ UNCHANGED <<examples, app,
                 requests_per_minute, request_counts, lock, clock,
                 running, admitted,
                 last_rejected>>

\* The caller abandons the request: asyncio throws CancelledError into the
\* coroutine where it is suspended, i.e. at an await that gave up the event
\* loop (lines 162 and 186, and line 168 when the lock is taken).  The
\* exception leaves dispatch through __aexit__ of the with block when it is
\* raised inside it, which releases the lock.
MwCancel(t) ==
  /\ app = "mw"
  /\ running = NoTask
  /\ tasks[t].pc \notin {"idle", "cancelled"}
  /\ lock' = IF lock = t THEN NoTask ELSE lock
  /\ tasks' = [tasks EXCEPT ![t] = [IdleTask EXCEPT !.pc = "cancelled"]]
  /\ UNCHANGED <<examples, app,
                 requests_per_minute, request_counts, clock, running,
                 admitted, last_rejected>>

\* CancelledError has left dispatch; the request is over.
MwCancelled(t) ==
  /\ app = "mw"
  /\ running = NoTask
  /\ tasks[t].pc = "cancelled"
  /\ tasks' = [tasks EXCEPT ![t] = IdleTask]
  /\ UNCHANGED <<examples, app,
                 requests_per_minute, request_counts, lock, clock,
                 running, admitted, last_rejected>>

\* --------------------------------------------------------------- rate_limit
\* lines 286-299: the dependency is called with the request and the optional
\* user; key and limit
DepStart(t, user, client) ==
  /\ app = "dep"
  /\ running = NoTask
  /\ tasks[t].pc = "idle"
  /\ running' = t
  /\ tasks' = [tasks EXCEPT ![t] =
                 [IdleTask EXCEPT !.pc = "sample",
                                  !.key = DepKey(user, client),
                                  !.limit = DepLimit(user)]]
  /\ UNCHANGED <<examples, app,
                 requests_per_minute, request_counts, lock, clock,
                 admitted,
                 last_rejected>>

\* lines 301-302: now = time.time(), window_start = now - RATE_WINDOW
DepSample(t) ==
  /\ app = "dep"
  /\ running = t
  /\ tasks[t].pc = "sample"
  /\ tasks' = [tasks EXCEPT ![t].pc = "purge",
                            ![t].now = clock,
                            ![t].window_start = DepWindowStart(clock),
                            ![t].pre = Snapshot(tasks[t].key)]
  /\ UNCHANGED <<examples, app,
                 requests_per_minute, request_counts, lock, clock,
                 running, admitted,
                 last_rejected>>

\* Mutant of DepPurge: a key whose list comes out empty is dropped from the
\* map.
DepPurgeEvicts(t) ==
  /\ app = "dep"
  /\ running = t
  /\ tasks[t].pc = "purge"
  /\ request_counts' =
       LET kept == DepClean(Get(request_counts, tasks[t].key),
                            tasks[t].window_start)
       IN  IF kept = <<>>
             THEN [k \in (DOMAIN request_counts) \ {tasks[t].key} |->
                     request_counts[k]]
             ELSE Put(request_counts, tasks[t].key, kept)
  /\ tasks' = [tasks EXCEPT ![t].pc = "count"]
  /\ UNCHANGED <<examples, app,
                 requests_per_minute, lock, clock, running, admitted,
                 last_rejected>>

\* line 305: clean old requests
DepPurge(t) ==
  /\ app = "dep"
  /\ running = t
  /\ tasks[t].pc = "purge"
  /\ request_counts' =
       Put(request_counts, tasks[t].key,
           DepClean(Get(request_counts, tasks[t].key), tasks[t].window_start))
  /\ tasks' = [tasks EXCEPT ![t].pc = "count"]
  /\ UNCHANGED <<examples, app,
                 requests_per_minute, lock, clock, running, admitted,
                 last_rejected>>

\* line 307
DepCount(t) ==
  /\ app = "dep"
  /\ running = t
  /\ tasks[t].pc = "count"
  /\ tasks' = [tasks EXCEPT ![t].pc =
                 IF DepOverLimit(Get(request_counts, tasks[t].key),
                                 tasks[t].limit)
                   THEN "reject" ELSE "append"]
  /\ UNCHANGED <<examples, app,
                 requests_per_minute, request_counts, lock, clock,
                 running, admitted,
                 last_rejected>>

\* lines 308-312: raise HTTPException(429)
DepReject(t) ==
  /\ app = "dep"
  /\ running = t
  /\ tasks[t].pc = "reject"
  /\ running' = NoTask
  /\ last_rejected' = [key |-> tasks[t].key, now |-> tasks[t].now,
                       status_code |-> 429, retry_after |-> DepRetryAfter]
  /\ tasks' = [tasks EXCEPT ![t] = IdleTask]
  /\ UNCHANGED <<examples, app,
                 requests_per_minute, request_counts, lock, clock,
                 admitted>>

\* line 314: request_counts[key].append(now)
DepAppend(t) ==
  /\ app = "dep"
  /\ running = t
  /\ tasks[t].pc = "append"
  /\ request_counts' =
       Put(request_counts, tasks[t].key,
           Append(Get(request_counts, tasks[t].key), tasks[t].now))
  /\ admitted' =
       Put(admitted, tasks[t].key,
           Append(Get(admitted, tasks[t].key), tasks[t].now))
  /\ tasks' = [tasks EXCEPT ![t].pc = "return"]
  /\ UNCHANGED <<examples, app, requests_per_minute, lock, clock, running,
                 last_rejected>>

\* the dependency returns (end of the function, after line 314) and the
\* request goes on to its endpoint
DepReturn(t) ==
  /\ app = "dep"
  /\ running = t
  /\ tasks[t].pc = "return"
  /\ running' = NoTask
  /\ tasks' = [tasks EXCEPT ![t] = IdleTask]
  /\ UNCHANGED <<examples, app,
                 requests_per_minute, request_counts, lock, clock,
                 admitted, last_rejected>>

Next ==
  \/ Tick
  \/ \E t \in Tasks, c \in Clients, p \in Paths : MwStart(t, c, p)
  \/ \E t \in Tasks : MwSample(t)
  \/ \E t \in Tasks : MwAcquire(t)
  \/ \E t \in Tasks : MwPurge(t)
  \/ \E t \in Tasks : MwCount(t)
  \/ \E t \in Tasks : MwReject(t)
  \/ \E t \in Tasks : MwAppend(t)
  \/ \E t \in Tasks : MwRelease(t)
  \/ \E t \in Tasks : MwCallNextReturn(t)
  \/ \E t \in Tasks, u \in Users, c \in DepClients : DepStart(t, u, c)
  \/ \E t \in Tasks : DepSample(t)
  \/ \E t \in Tasks : DepPurge(t)
  \/ \E t \in Tasks : DepCount(t)
  \/ \E t \in Tasks : DepReject(t)
  \/ \E t \in Tasks : DepAppend(t)
  \/ \E t \in Tasks : DepReturn(t)

Spec == Init /\ [][Next]_vars

\* The limiters with requests that may be abandoned.  rate_limit has no
\* await, so it has no point at which it can be cancelled.
NextCancel ==
  \/ Next
  \/ \E t \in Tasks : MwCancel(t)
  \/ \E t \in Tasks : MwCancelled(t)

SpecCancel == Init /\ [][NextCancel]_vars

\* A step of the middleware's check, from sampling the time to leaving the
\* with block.  The event loop runs a coroutine up to its next suspension
\* point and resumes every coroutine that is ready, so a check whose next
\* step stays possible takes it; arrivals, the clock and the downstream
\* handler are under no such obligation.
MwCheckStep(t) ==
  \/ MwSample(t)
  \/ MwAcquire(t)
  \/ MwPurge(t)
  \/ MwCount(t)
  \/ MwReject(t)
  \/ MwAppend(t)
  \/ MwRelease(t)

SpecFair == Spec /\ \A t \in Tasks : WF_vars(MwCheckStep(t))

\* ================================================ authentication dependencies
\* auth_dependencies.py.  A dependency is a function of its parameters: the
\* token, the scopes the endpoint requires, the credentials, the API key.

\* line 27
API_KEY == "your-api-key"

\* scope names: two of those declared by oauth2_scheme (lines 58-64)
ScopeNames == {"users:read", "admin"}

\* The "scopes" claim of a payload: not in the payload, JSON null, or a list
\* of scope names (the order of a list plays no part: the code only tests
\* membership).
AbsentClaim == [type |-> "absent", items |-> {}]
NullClaim == [type |-> "null", items |-> {}]
ListClaim(items) == [type |-> "list", items |-> items]
ScopesClaims == {AbsentClaim, NullClaim} \cup {ListClaim(x) : x \in SUBSET ScopeNames}

\* payload.get("sub"): None when the payload has no "sub"
Subjects == {None, "", "alice"}

\* A token: a string that jwt.decode rejects (bad signature, expired,
\* malformed, a "sub" that is not a string: JWTError), or one signed with
\* SECRET_KEY that carries a payload.
Garbage == [valid |-> FALSE, sub |-> None, scopes |-> AbsentClaim]
Tokens ==
  {Garbage} \cup [valid : {TRUE}, sub : Subjects, scopes : ScopesClaims]

\* jwt.decode(token, SECRET_KEY, algorithms=[ALGORITHM]): the payload, or
\* JWTError
jwt_decode(token) ==
  IF token.valid
    THEN [ok |-> TRUE, sub |-> token.sub, scopes |-> token.scopes]
    ELSE [ok |-> FALSE, sub |-> None, scopes |-> AbsentClaim]

\* payload.get("scopes", []): the default only when the claim is absent
payload_get_scopes(payload) ==
  IF payload.scopes.type = "absent" THEN ListClaim({}) ELSE payload.scopes

\* TokenData(username=..., scopes=...), lines 32-35: scopes is declared
\* List[str]; pydantic raises ValidationError for a value that is not a list
TokenDataValid(scopes) == scopes.type = "list"

\* An Optional[User] is the set of the User it holds: empty for None.
NoneUser == {}

\* lines 410-420: the placeholder returns a User for every username
get_user_from_db(username) ==
  {[id |-> 1, username |-> username, email |-> username \o "@example.com",
    is_active |-> TRUE, role |-> "user",
    scopes |-> {"users:read", "items:read", "items:write"}]}

\* outcomes of a dependency; a returned value is an Optional[User]
Returns(value) == [kind |-> "return", value |-> value]
HTTPException(status_code, www_authenticate) ==
  [kind |-> "HTTPException", status_code |-> status_code,
   www_authenticate |-> www_authenticate]
Raises(exc) == [kind |-> exc]

\* lines 79-82
authenticate_value(security_scopes) ==
  IF security_scopes # {} THEN "Bearer scope" ELSE "Bearer"

\* lines 71-115
get_current_user(security_scopes, token) ==
  LET credentials_exception ==
        HTTPException(401, authenticate_value(security_scopes))
      payload == jwt_decode(token)
      token_scopes == payload_get_scopes(payload)
      user == get_user_from_db(payload.sub)
  IN  IF ~payload.ok THEN credentials_exception
      ELSE IF payload.sub = None THEN credentials_exception
      ELSE IF ~TokenDataValid(token_scopes) THEN Raises("ValidationError")
      ELSE IF user = NoneUser THEN credentials_exception
      ELSE IF \E scope \in security_scopes : scope \notin token_scopes.items
        THEN HTTPException(403, authenticate_value(security_scopes))
      ELSE Returns(user)

\* the Authorization header as HTTPBearer hands it over: None, or a scheme
\* and the credentials
Schemes == {"Bearer", "bearer", "Basic"}
NoCredentials == [scheme |-> None, credentials |-> Garbage]
Credentials ==
  {NoCredentials} \cup [scheme : Schemes, credentials : Tokens]

\* str.lower() on the schemes
lower(scheme) ==
  CASE scheme = "Bearer" -> "bearer"
    [] scheme = "Basic" -> "basic"
    [] OTHER -> scheme

\* the X-API-Key header as APIKeyHeader(auto_error=False) hands it over
ApiKeys == {None, "", API_KEY, "another-key"}

\* Python truth of an Optional[str]
Truthy(x) == x # None /\ x # ""

\* Mutant of get_current_user_or_api_key: a bearer token that fails ends the
\* call with 401, the API key is not looked at.
get_current_user_or_api_key_jwt_final(credentials, api_key) ==
  IF credentials # NoCredentials /\ lower(credentials.scheme) = "bearer"
    THEN IF jwt_decode(credentials.credentials).ok
              /\ Truthy(jwt_decode(credentials.credentials).sub)
           THEN Returns(get_user_from_db(
                          jwt_decode(credentials.credentials).sub))
           ELSE HTTPException(401, "Bearer")
  ELSE IF Truthy(api_key) /\ api_key = API_KEY THEN Returns(NoneUser)
  ELSE HTTPException(401, "Bearer")

\* lines 217-246
get_current_user_or_api_key(credentials, api_key) ==
  LET payload == jwt_decode(credentials.credentials)
      user == get_user_from_db(payload.sub)
  IN  IF /\ credentials # NoCredentials
         /\ lower(credentials.scheme) = "bearer"
         /\ payload.ok
         /\ Truthy(payload.sub)
         /\ user # NoneUser
        THEN Returns(user)
      ELSE IF Truthy(api_key) /\ api_key = API_KEY THEN Returns(NoneUser)
      ELSE HTTPException(401, "Bearer")

\* a request reaches an endpoint that depends on get_current_user
GetCurrentUser(security_scopes, token) ==
  /\ auth' = [fn |-> "get_current_user",
              security_scopes |-> security_scopes,
              token |-> token,
              outcome |-> get_current_user(security_scopes, token)]
  /\ UNCHANGED <<limiters, http, session, crud, bulk, pair>>

\* a request reaches an endpoint that depends on get_current_user_or_api_key
GetCurrentUserOrApiKey(credentials, api_key) ==
  /\ auth' = [fn |-> "get_current_user_or_api_key",
              credentials |-> credentials,
              api_key |-> api_key,
              outcome |-> get_current_user_or_api_key(credentials, api_key)]
  /\ UNCHANGED <<limiters, http, session, crud, bulk, pair>>

InitAuth ==
  /\ LimitersOff
  /\ ExamplesOff

NextAuth ==
  \/ \E r \in SUBSET ScopeNames, t \in Tokens : GetCurrentUser(r, t)
  \/ \E c \in Credentials, k \in ApiKeys : GetCurrentUserOrApiKey(c, k)

SpecAuth == InitAuth /\ [][NextAuth]_vars

\* ===================================================== create_app's stack
\* middleware_examples.py, create_app (lines 304-356) and the dispatch
\* methods of the middlewares it installs.  One request at a time travels
\* down the stack to the endpoint and its response, or the exception the
\* endpoint raised, travels back up.  Whether RateLimitMiddleware finds the
\* client over its limit is decided by the counter modelled above; here it
\* is an input.

\* the add_middleware calls of create_app, in source order (lines 316-354)
AddOrder ==
  <<"SecurityHeadersMiddleware", "ErrorHandlingMiddleware",
    "RateLimitMiddleware", "TimingMiddleware", "RequestIDMiddleware",
    "LoggingMiddleware", "CORSMiddleware", "TrustedHostMiddleware",
    "GZipMiddleware">>

\* the middlewares of Starlette; they are taken to pass requests and
\* responses on
LibraryMiddlewares ==
  {"CORSMiddleware", "TrustedHostMiddleware", "GZipMiddleware"}

\* app.add_middleware(cls): the class goes to the front of the list, and the
\* front of the list is the outermost layer (line 313: last added = first
\* executed)
add_middleware(user_middleware, cls) == <<cls>> \o user_middleware

RECURSIVE AddAll(_, _)
AddAll(user_middleware, calls) ==
  IF calls = <<>> THEN user_middleware
  ELSE AddAll(add_middleware(user_middleware, Head(calls)), Tail(calls))

\* the stack create_app returns: Stack[1] is the outermost middleware
Stack == AddAll(<<>>, AddOrder)

\* below the innermost middleware: the router and the endpoint
Endpoint == Len(Stack) + 1

\* exclude_paths of the RateLimitMiddleware of create_app (line 325)
AppExcludePaths == {"/health", "/docs"}

\* lines 255-261
SecurityHeaders ==
  {"X-Content-Type-Options", "X-Frame-Options", "X-XSS-Protection",
   "Strict-Transport-Security", "Content-Security-Policy",
   "Referrer-Policy", "Permissions-Policy"}

\* request.state has no attribute request_id
Unset == "<unset>"
\* a middleware has not read request.state.request_id
Unread == "<unread>"

\* getattr(request.state, "request_id", "unknown")
getattr_request_id(state_request_id) ==
  IF state_request_id = Unset THEN "unknown" ELSE state_request_id

\* what the endpoint does: return a response, raise an exception derived
\* from Exception, or be cancelled (asyncio.CancelledError, a BaseException)
Handlers == {"return", "Exception", "CancelledError"}

\* the X-Request-ID header of a request: None when it has none
RequestIdHeaders == {None, "client-id"}

NoResponse ==
  [status_code |-> 0, headers |-> {}, x_request_id |-> None,
   body_request_id |-> None]

Response(status_code, headers, body_request_id) ==
  [status_code |-> status_code, headers |-> headers, x_request_id |-> None,
   body_request_id |-> body_request_id]

Entering(cls) ==
  /\ http.phase = "request"
  /\ http.pos \in DOMAIN Stack
  /\ Stack[http.pos] = cls

Returning(cls) ==
  /\ http.phase = "response"
  /\ http.pos \in DOMAIN Stack
  /\ Stack[http.pos] = cls

Raising(cls) ==
  /\ http.phase = "raising"
  /\ http.pos \in DOMAIN Stack
  /\ Stack[http.pos] = cls

\* a request arrives at the outermost middleware
Receive(path, x_request_id, handler) ==
  /\ http.phase \in {"idle", "sent", "failed"}
  /\ http' = [phase |-> "request", pos |-> 1, path |-> path,
              x_request_id |-> x_request_id, handler |-> handler,
              state_request_id |-> Unset,
              logging_request_id |-> Unread,
              error_request_id |-> Unread,
              exc |-> None, response |-> NoResponse]
  /\ UNCHANGED <<limiters, auth, session, crud, bulk, pair>>

\* dispatch of a middleware that goes to await call_next(request) without
\* touching the request: lines 53-55, 116-117, 251-252
CallNext ==
  /\ \E cls \in LibraryMiddlewares \cup
                  {"TimingMiddleware", "ErrorHandlingMiddleware",
                   "SecurityHeadersMiddleware"} : Entering(cls)
  /\ http' = [http EXCEPT !.pos = @ + 1]
  /\ UNCHANGED <<limiters, auth, session, crud, bulk, pair>>

\* lines 80-92: LoggingMiddleware reads request.state.request_id, logs the
\* start of the request and calls the next layer
LoggingRequest ==
  /\ Entering("LoggingMiddleware")
  /\ http' = [http EXCEPT
                !.logging_request_id =
                   getattr_request_id(http.state_request_id),
                !.pos = @ + 1]
  /\ UNCHANGED <<limiters, auth, session, crud, bulk, pair>>

\* lines 33-41: the id of the header, or a new uuid4, goes to request.state
RequestIDRequest ==
  /\ Entering("RequestIDMiddleware")
  /\ http' = [http EXCEPT
                !.state_request_id =
                   IF http.x_request_id # None THEN http.x_request_id
                   ELSE "uuid4",
                !.pos = @ + 1]
  /\ UNCHANGED <<limiters, auth, session, crud, bulk, pair>>

\* lines 159-186: an excluded path and a client within its limit go on to
\* the next layer; a client over its limit gets the 429 response at once
RateLimitRequest(over_limit) ==
  /\ Entering("RateLimitMiddleware")
  /\ IF http.path \notin AppExcludePaths /\ over_limit
       THEN http' = [http EXCEPT
                       !.phase = "response",
                       !.response = Response(429, {"Retry-After"}, None),
                       !.pos = @ - 1]
       ELSE http' = [http EXCEPT !.pos = @ + 1]
  /\ UNCHANGED <<limiters, auth, session, crud, bulk, pair>>

\* the endpoint returns its response, raises, or is cancelled
EndpointRuns ==
  /\ http.phase = "request"
  /\ http.pos = Endpoint
  /\ IF http.handler = "return"
       THEN http' = [http EXCEPT !.phase = "response",
                                 !.response = Response(200, {}, None),
                                 !.pos = @ - 1]
       ELSE http' = [http EXCEPT !.phase = "raising",
                                 !.exc = http.handler,
                                 !.pos = @ - 1]
  /\ UNCHANGED <<limiters, auth, session, crud, bulk, pair>>

\* call_next returned and dispatch returns the response as it is:
\* lines 94-105 (the completion is logged with the id read at the start),
\* 117-118, 186
ReturnResponse ==
  /\ \E cls \in LibraryMiddlewares \cup
                  {"LoggingMiddleware", "ErrorHandlingMiddleware",
                   "RateLimitMiddleware"} : Returning(cls)
  /\ http' = [http EXCEPT !.pos = @ - 1]
  /\ UNCHANGED <<limiters, auth, session, crud, bulk, pair>>

\* lines 43-45: the id is added to the response (the local request_id is
\* the value stored in request.state, which nothing else assigns)
RequestIDResponse ==
  /\ Returning("RequestIDMiddleware")
  /\ http' = [http EXCEPT
                !.response.headers = @ \cup {"X-Request-ID"},
                !.response.x_request_id = http.state_request_id,
                !.pos = @ - 1]
  /\ UNCHANGED <<limiters, auth, session, crud, bulk, pair>>

\* lines 57-70
TimingResponse ==
  /\ Returning("TimingMiddleware")
  /\ http' = [http EXCEPT
                !.response.headers = @ \cup {"X-Process-Time"},
                !.pos = @ - 1]
  /\ UNCHANGED <<limiters, auth, session, crud, bulk, pair>>

\* lines 254-263
SecurityHeadersResponse ==
  /\ Returning("SecurityHeadersMiddleware")
  /\ http' = [http EXCEPT
                !.response.headers = @ \cup SecurityHeaders,
                !.pos = @ - 1]
  /\ UNCHANGED <<limiters, auth, session, crud, bulk, pair>>

\* Mutant of ErrorHandlingExcept: the 500 response is built without the
\* request id.
ErrorHandlingExceptNoId ==
  /\ Raising("ErrorHandlingMiddleware")
  /\ http.exc = "Exception"
  /\ http' = [http EXCEPT
                !.phase = "response",
                !.exc = None,
                !.error_request_id =
                   getattr_request_id(http.state_request_id),
                !.response = Response(500, {}, None),
                !.pos = @ - 1]
  /\ UNCHANGED <<limiters, auth, session, crud, bulk, pair>>

\* lines 119-134: except Exception builds the 500 response
ErrorHandlingExcept ==
  /\ Raising("ErrorHandlingMiddleware")
  /\ http.exc = "Exception"
  /\ http' = [http EXCEPT
                !.phase = "response",
                !.exc = None,
                !.error_request_id =
                   getattr_request_id(http.state_request_id),
                !.response =
                   Response(500, {},
                            getattr_request_id(http.state_request_id)),
                !.pos = @ - 1]
  /\ UNCHANGED <<limiters, auth, session, crud, bulk, pair>>

\* an exception raised by await call_next leaves a dispatch that does not
\* catch it
Propagate ==
  /\ http.phase = "raising"
  /\ http.pos \in DOMAIN Stack
  /\ ~(Stack[http.pos] = "ErrorHandlingMiddleware" /\ http.exc = "Exception")
  /\ http' = [http EXCEPT !.pos = @ - 1]
  /\ UNCHANGED <<limiters, auth, session, crud, bulk, pair>>

\* the response, or the exception, leaves the outermost middleware
Leave ==
  /\ http.phase \in {"response", "raising"}
  /\ http.pos = 0
  /\ http' = [http EXCEPT
                !.phase = IF http.phase = "response" THEN "sent"
                          ELSE "failed"]
  /\ UNCHANGED <<limiters, auth, session, crud, bulk, pair>>

InitApp ==
  /\ LimitersOff
  /\ ExamplesOff

NextApp ==
  \/ \E p \in Paths, x \in RequestIdHeaders, h \in Handlers : Receive(p, x, h)
  \/ CallNext
  \/ LoggingRequest
  \/ RequestIDRequest
  \/ \E over_limit \in BOOLEAN : RateLimitRequest(over_limit)
  \/ EndpointRuns
  \/ ReturnResponse
  \/ RequestIDResponse
  \/ TimingResponse
  \/ SecurityHeadersResponse
  \/ ErrorHandlingExcept
  \/ Propagate
  \/ Leave

SpecApp == InitApp /\ [][NextApp]_vars

\* ==================================================== DBSessionMiddleware
\* middleware_examples.py, lines 270-289.  session.next_id counts the
\* sessions session_factory has made; session.reqs[t] is the dispatch of
\* task t: its position, the session it works with (sid), what call_next,
\* commit and rollback did, and the exception that is propagating.

\* how an awaited call ends: it returns, it raises an exception derived from
\* Exception, or the task is cancelled in it (asyncio.CancelledError, which
\* derives from BaseException only)
Outcomes == {"return", "Exception", "CancelledError"}

\* the exceptions caught by except Exception
IsException(exc) == exc \in {"HandlerError", "CommitError", "RollbackError"}

\* Mutant of DbCallNext: an exception of the handler leaves dispatch without
\* a rollback.
DbCallNextNoRollback(t, outcome) ==
  /\ session.reqs[t].pc = "call_next"
  /\ session' =
       [session EXCEPT
          !.reqs[t].call_next = outcome,
          !.reqs[t].pc = IF outcome = "return" THEN "commit" ELSE "exit",
          !.reqs[t].raised =
             CASE outcome = "return" -> None
               [] outcome = "Exception" -> "HandlerError"
               [] OTHER -> "CancelledError"]
  /\ UNCHANGED <<limiters, auth, http, crud, bulk, pair>>

\* lines 281-282: async with self.session_factory() as session, and
\* request.state.db = session
DbEnter(t) ==
  /\ session.reqs[t].pc \in {"idle", "done"}
  /\ session.next_id <= MaxSessions
  /\ session' =
       [session EXCEPT
          !.next_id = @ + 1,
          !.reqs[t] = [NoDbRequest EXCEPT !.pc = "call_next",
                                          !.sid = session.next_id,
                                          !.state_db = session.next_id]]
  /\ UNCHANGED <<limiters, auth, http, crud, bulk, pair>>

\* line 284: response = await call_next(request); an Exception goes to the
\* except clause (line 287), a CancelledError leaves the with block
DbCallNext(t, outcome) ==
  /\ session.reqs[t].pc = "call_next"
  /\ session' =
       [session EXCEPT
          !.reqs[t].call_next = outcome,
          !.reqs[t].pc =
             CASE outcome = "return" -> "commit"
               [] outcome = "Exception" -> "rollback"
               [] OTHER -> "exit",
          !.reqs[t].raised =
             CASE outcome = "return" -> None
               [] outcome = "Exception" -> "HandlerError"
               [] OTHER -> "CancelledError"]
  /\ UNCHANGED <<limiters, auth, http, crud, bulk, pair>>

\* lines 285-286: await session.commit(), then return response
DbCommit(t, outcome) ==
  /\ session.reqs[t].pc = "commit"
  /\ session' =
       [session EXCEPT
          !.reqs[t].commit = outcome,
          !.reqs[t].pc =
             IF outcome = "Exception" THEN "rollback" ELSE "exit",
          !.reqs[t].raised =
             CASE outcome = "return" -> None
               [] outcome = "Exception" -> "CommitError"
               [] OTHER -> "CancelledError"]
  /\ UNCHANGED <<limiters, auth, http, crud, bulk, pair>>

\* lines 287-289: await session.rollback(), then raise; an exception of the
\* rollback itself takes the place of the one being handled
DbRollback(t, outcome) ==
  /\ session.reqs[t].pc = "rollback"
  /\ session' =
       [session EXCEPT
          !.reqs[t].rollback = outcome,
          !.reqs[t].pc = "exit",
          !.reqs[t].raised =
             CASE outcome = "return" -> @
               [] outcome = "Exception" -> "RollbackError"
               [] OTHER -> "CancelledError"]
  /\ UNCHANGED <<limiters, auth, http, crud, bulk, pair>>

\* leaving the with block of line 281 closes the session; dispatch returns
\* the response or lets the exception go to its caller
DbExit(t) ==
  /\ session.reqs[t].pc = "exit"
  /\ session' = [session EXCEPT !.reqs[t].pc = "done",
                                !.reqs[t].closed = TRUE]
  /\ UNCHANGED <<limiters, auth, http, crud, bulk, pair>>

InitDb ==
  /\ LimitersOff
  /\ ExamplesOff

NextDb ==
  \/ \E t \in Tasks : DbEnter(t)
  \/ \E t \in Tasks, o \in Outcomes : DbCallNext(t, o)
  \/ \E t \in Tasks, o \in Outcomes : DbCommit(t, o)
  \/ \E t \in Tasks, o \in Outcomes : DbRollback(t, o)
  \/ \E t \in Tasks : DbExit(t)

SpecDb == InitDb /\ [][NextDb]_vars

\* ============================================================ CRUD router
\* crud_router.py: update_item (PUT) and partial_update_item (PATCH), with
\* the dependencies get_item_or_404 and verify_item_owner and the models
\* ItemUpdate (lines 40-44) and Item (lines 313-326).  crud.items is the
\* items table, crud.now is func.now() as a counter, crud.last is the
\* latest call and the status it answered with.

\* the fields of ItemUpdate
UpdateFields == {"name", "description", "price", "is_available"}

\* values a request body gives for a field: for name null, a valid one and
\* one that min_length rejects; for price a valid one and one that gt
\* rejects; for the others a valid one.  The empty set is also the default
\* of a field the body does not give.
BodyNames == {{}, {"b"}, {""}}
BodyDescriptions == {{}, {"d"}}
BodyPrices == {{}, {7}, {0}}
BodyAvailabilities == {{}, {FALSE}}

\* The parsed body: model_fields_set and the value of every field; a field
\* the body does not give has its default, None.
ItemUpdates ==
  {d \in [fields_set : SUBSET UpdateFields, name : BodyNames,
          description : BodyDescriptions, price : BodyPrices,
          is_available : BodyAvailabilities] :
     /\ \A f \in UpdateFields \ d.fields_set : d[f] = {}
     /\ \A f \in d.fields_set \ {"name"} : d[f] # {}}

\* lines 40-44: name has min_length=1, price has gt=0; None passes both
ItemUpdateValid(d) ==
  /\ \A x \in d.name : x # ""
  /\ \A x \in d.price : x > 0

\* Mutant of model_dump_exclude_unset: every field of the model is dumped.
model_dump_all(d) == [f \in UpdateFields |-> d[f]]

\* item_data.model_dump(exclude_unset=True)
model_dump_exclude_unset(d) == [f \in d.fields_set |-> d[f]]

\* lines 217-218 and 237-238: for field, value in update_data.items():
\* setattr(item, field, value)
setattr_all(item, update_data) ==
  [f \in DOMAIN item |->
     IF f \in DOMAIN update_data THEN update_data[f] ELSE item[f]]

\* await db.flush(): an UPDATE is sent when an attribute has a new value,
\* and then updated_at takes func.now() (line 323, onupdate)
flush(old, item, now) ==
  IF item = old THEN item ELSE [item EXCEPT !.updated_at = {now}]

\* the caller: the id of current_user
UserIds == {1, 2}
\* the item_id of the path
ItemIds == {1, 2}

\* the body of update_item and of partial_update_item, after its
\* dependencies: 404 from get_item_or_404 (lines 66-79), 403 from
\* verify_item_owner (lines 82-93), 422 from the validation of the body,
\* else the update
update_outcome(fn, item_id, user_id, item_data) ==
  LET found == item_id \in DOMAIN crud.items
      item == crud.items[item_id]
      changed == setattr_all(item, model_dump_exclude_unset(item_data))
      stored == flush(item, changed, crud.now)
      call == [fn |-> fn, item_id |-> item_id, user_id |-> user_id,
               item_data |-> item_data, status_code |-> 0]
  IN  IF ~found
        THEN [crud EXCEPT !.last = [call EXCEPT !.status_code = 404]]
      ELSE IF item.owner_id # user_id
        THEN [crud EXCEPT !.last = [call EXCEPT !.status_code = 403]]
      ELSE IF ~ItemUpdateValid(item_data)
        THEN [crud EXCEPT !.last = [call EXCEPT !.status_code = 422]]
      ELSE [crud EXCEPT !.items[item_id] = stored,
                        !.now = IF stored = changed THEN @ ELSE @ + 1,
                        !.last = [call EXCEPT !.status_code = 200]]

\* lines 203-222
update_item(item_id, user_id, item_data) ==
  /\ crud.now <= MaxUpdates
  /\ crud' = update_outcome("update_item", item_id, user_id, item_data)
  /\ UNCHANGED <<limiters, auth, http, session, bulk, pair>>

\* lines 225-243
partial_update_item(item_id, user_id, item_data) ==
  /\ crud.now <= MaxUpdates
  /\ crud' = update_outcome("partial_update_item", item_id, user_id,
                            item_data)
  /\ UNCHANGED <<limiters, auth, http, session, bulk, pair>>

InitCrud ==
  /\ LimitersOff
  /\ ExamplesOff

NextCrud ==
  \/ \E i \in ItemIds, u \in UserIds, d \in ItemUpdates :
       update_item(i, u, d)
  \/ \E i \in ItemIds, u \in UserIds, d \in ItemUpdates :
       partial_update_item(i, u, d)

SpecCrud == InitCrud /\ [][NextCrud]_vars

\* ================================================================ orders
\* full_server.py: place_order and process_bulk_orders over the two
\* simulated databases.

\* the longest list of orders given to process_bulk_orders
MaxOrders == 2

\* how many values uuid.uuid4().hex[:8] ranges over here (16^8 in the code)
NumHex8 == 2

\* uuid.uuid4().hex[:8]: eight hex digits of a random uuid
Hex8 == 1..NumHex8

CustomerIds == {"cust_a", "cust_b"}

\* class Order, by the field the tools read
Orders == [customer_id : CustomerIds]

RECURSIVE SeqsUpTo(_, _)
SeqsUpTo(S, n) ==
  IF n = 0 THEN {<<>>}
  ELSE LET shorter == SeqsUpTo(S, n - 1)
       IN  shorter \cup {Append(q, x) : q \in {r \in shorter : Len(r) = n - 1},
                                        x \in S}

OrderLists == SeqsUpTo(Orders, MaxOrders)

\* d[key] = value on a dict
dict_set(d, key, value) ==
  {e \in d : e.key # key} \cup {[key |-> key, value |-> value]}

dict_keys(d) == {e.key : e \in d}

\* place_order(order) when uuid4 gives hex: the order id and the new
\* orders_db, or the ValueError for an unknown customer
place_order(db, order, hex) ==
  IF order.customer_id \notin db.customers_db
  THEN [raised |-> TRUE, error |-> <<"Customer not found: ", order.customer_id>>,
        order_id |-> 0, orders_db |-> db.orders_db]
  ELSE [raised |-> FALSE, error |-> <<>>,
        order_id |-> hex,
        orders_db |-> dict_set(db.orders_db, hex, order)]

\* create_customer: customers_db[customer_id] = customer
create_customer(c) ==
  /\ bulk.pc = "idle"
  /\ bulk' = [bulk EXCEPT !.customers_db = @ \cup {c}]
  /\ UNCHANGED <<limiters, auth, http, session, crud, pair>>

\* process_bulk_orders up to the loop: successful = [], failed = []
BulkStart(orders) ==
  /\ bulk.pc = "idle"
  /\ bulk' = [bulk EXCEPT !.pc = "loop", !.orders = orders, !.i = 0,
                          !.successful = <<>>, !.failed = <<>>,
                          !.before = bulk.orders_db, !.result = {}]
  /\ UNCHANGED <<limiters, auth, http, session, crud, pair>>

\* one iteration of `for i, order in enumerate(orders)`
BulkIteration(hex) ==
  /\ bulk.pc = "loop"
  /\ bulk.i < Len(bulk.orders)
  /\ LET order == bulk.orders[bulk.i + 1]
         r == place_order(bulk, order, hex)
     IN  bulk' =
           IF r.raised
           THEN [bulk EXCEPT !.i = @ + 1,
                   !.failed = Append(@, [index |-> bulk.i, error |-> r.error])]
           ELSE [bulk EXCEPT !.i = @ + 1,
                   !.orders_db = r.orders_db,
                   !.successful = Append(@, r.order_id)]
  /\ UNCHANGED <<limiters, auth, http, session, crud, pair>>

\* after the loop: the summary dict
BulkReturn ==
  /\ bulk.pc = "loop"
  /\ bulk.i = Len(bulk.orders)
  /\ bulk' = [bulk EXCEPT !.pc = "returned",
                !.result = {[total |-> Len(bulk.orders),
                             successful |-> Len(bulk.successful),
                             failed |-> Len(bulk.failed),
                             order_ids |-> bulk.successful,
                             errors |-> bulk.failed]}]
  /\ UNCHANGED <<limiters, auth, http, session, crud, pair>>

\* the tool returned; the server waits for the next call
BulkDone ==
  /\ bulk.pc = "returned"
  /\ bulk' = [bulk EXCEPT !.pc = "idle"]
  /\ UNCHANGED <<limiters, auth, http, session, crud, pair>>

InitOrders ==
  /\ LimitersOff
  /\ ExamplesOff

NextOrders ==
  \/ \E c \in CustomerIds : create_customer(c)
  \/ \E orders \in OrderLists : BulkStart(orders)
  \/ \E hex \in Hex8 : BulkIteration(hex)
  \/ BulkReturn
  \/ BulkDone

SpecOrders == InitOrders /\ [][NextOrders]_vars

\* ================================================================ the two counters in lockstep
\* RateLimitMiddleware.dispatch and rate_limit given the same observations:
\* each is run as a whole on its own map, with requests_per_minute as the
\* limit of both.

\* the keys observed
PairKeys == {"k1", "k2"}

\* the arrival times observed, in any order
PairTimes == {x \in 0..MaxTime : x % TickSeconds = 0}

\* dispatch, lines 164-186, on the map counts: the decision and the map
dispatch(counts, client_ip, now) ==
  LET window_start == MwWindowStart(now)
      cleaned == MwClean(Get(counts, client_ip), window_start)
  IN  IF MwOverLimit(cleaned)
      THEN [admitted |-> FALSE, counts |-> Put(counts, client_ip, cleaned)]
      ELSE [admitted |-> TRUE,
            counts |-> Put(counts, client_ip, Append(cleaned, now))]

\* rate_limit, lines 301-314, on the map counts: the decision and the map
rate_limit(counts, key, limit, now) ==
  LET window_start == DepWindowStart(now)
      cleaned == DepClean(Get(counts, key), window_start)
  IN  IF DepOverLimit(cleaned, limit)
      THEN [admitted |-> FALSE, counts |-> Put(counts, key, cleaned)]
      ELSE [admitted |-> TRUE,
            counts |-> Put(counts, key, Append(cleaned, now))]

\* one observation (key, now) is given to both counters
Observe(key, now) ==
  /\ app = "pair"
  /\ LET m == dispatch(pair.mw, key, now)
         d == rate_limit(pair.dep, key, requests_per_minute, now)
     IN  pair' = [mw |-> m.counts, dep |-> d.counts,
                  last |-> [key |-> key, now |-> now,
                            mw_admitted |-> m.admitted,
                            dep_admitted |-> d.admitted,
                            observed |-> TRUE]]
  /\ UNCHANGED <<limiters, auth, http, session, crud, bulk>>

InitPair ==
  /\ app = "pair"
  /\ requests_per_minute \in ConfigLimits
  /\ request_counts = EmptyDict
  /\ lock = NoTask
  /\ clock = 0
  /\ running = NoTask
  /\ tasks = [t \in Tasks |-> IdleTask]
  /\ admitted = EmptyDict
  /\ last_rejected = NoRejection
  /\ ExamplesOff

NextPair == \E key \in PairKeys, now \in PairTimes : Observe(key, now)

SpecPair == InitPair /\ [][NextPair]_vars

\* ================================================================ claims
\* the window of the running application
Window == IF app = "mw" THEN MwWindow ELSE RATE_WINDOW

\* the keys of authenticated users in the dependency
UserKeys == {DepKey(u, c) : u \in Users \ {NoUser}, c \in DepClients}

\* the limit the application applies to key k
KeyLimit(k) ==
  IF app = "mw" THEN requests_per_minute
  ELSE IF k \in UserKeys THEN RATE_LIMIT * 2 ELSE RATE_LIMIT

\* the stored list of the key a task is checking
Stored(t) == Get(request_counts, tasks[t].key)

\* a task that has decided, and not yet acted on the decision
Decided(t) == tasks[t].pc \in {"reject", "append"}

\* a task inside the read-purge-count-append sequence
InSequence(t) == tasks[t].pc \in {"purge", "count", "reject", "append"}

\* a task between its purge and the end of its check
Purged(t) ==
  tasks[t].pc \in {"count", "reject", "append", "release", "return"}

\* the number of admissions ever recorded for k with lo < timestamp <= hi
AdmissionsIn(k, lo, hi) ==
  Cardinality({i \in DOMAIN Get(admitted, k) :
                 lo < Get(admitted, k)[i] /\ Get(admitted, k)[i] <= hi})

\* the instants the clock shows.  Every timestamp is one of them, and the
\* admissions in (t - W, t] for any other t are among those in (a - W, a]
\* for a the latest instant before t.
Instants == {x \in 0..MaxTime : x % TickSeconds = 0}

\* C1: for every key with a limit L >= 0 and every time t, at most L of the
\* admissions ever recorded for the key have a timestamp in (t - W, t], in
\* the dependency and in the middleware alike.
C1_AtMostLimitPerWindow ==
  \A k \in DOMAIN admitted : \A t \in Instants :
    KeyLimit(k) >= 0 => AdmissionsIn(k, t - Window, t) <= KeyLimit(k)

\* a key that was admitted more often than its limit over the run, and whose
\* latest check was rejected
C1_Witness ==
  \E k \in DOMAIN admitted :
    /\ KeyLimit(k) >= 1
    /\ Len(admitted[k]) > KeyLimit(k)
    /\ last_rejected.key = k

\* C2 (as claimed): every check, of the middleware and of the dependency,
\* holds the lock throughout its read-purge-count-append sequence.
C2_EveryCheckHoldsLock ==
  \A t \in Tasks : InSequence(t) => lock = t

\* C2 (amended): the middleware holds the map-wide lock throughout the
\* sequence; the dependency holds no lock, and runs the sequence without
\* giving up the event loop; in both, no two checks are inside the sequence
\* together.
C2_Serialized ==
  /\ \A t \in Tasks : (app = "mw" /\ InSequence(t)) => lock = t
  /\ \A t \in Tasks : (app = "dep" /\ InSequence(t)) => lock = NoTask
  /\ \A t \in Tasks : InSequence(t) => running = t
  /\ \A t, u \in Tasks : (InSequence(t) /\ InSequence(u)) => t = u

\* the dependency appends for a key that already has a record, with no lock
C2_Witness ==
  /\ app = "dep"
  /\ \E t \in Tasks :
       /\ tasks[t].pc = "append"
       /\ Len(tasks[t].pre.ts) > 0
       /\ lock = NoTask

\* C3: a rejected check leaves the key's list as the call found it, and a
\* check of the same key at the time of the latest rejected check is not
\* admitted.
C3_RejectedLeavesRecord ==
  /\ [][\A t \in Tasks :
          tasks[t].pc = "reject" =>
            /\ Stored(t) = tasks[t].pre.ts
            /\ Get(request_counts', tasks[t].key) = tasks[t].pre.ts]_vars
  /\ [](\A t \in Tasks :
          (tasks[t].pc = "append" /\ last_rejected.key = tasks[t].key)
            => last_rejected.now # tasks[t].now)

\* a retry at the time of a rejected check is rejected again
C3_Witness ==
  \E t \in Tasks :
    /\ tasks[t].pc = "reject"
    /\ last_rejected.key = tasks[t].key
    /\ last_rejected.now = tasks[t].now
    /\ Len(Stored(t)) > 0

\* C4 (as claimed): a middleware constructed with requests_per_minute <= 0
\* fails fast, so it never gets to reject a request.
C4_InvalidLimitFailsFast ==
  (app = "mw" /\ requests_per_minute <= 0) =>
    \A t \in Tasks : tasks[t].pc # "reject"

\* C5: a check that reaches the lock never finds it held by the check of a
\* different key.
C5_NoCrossKeyBlocking ==
  \A t \in Tasks :
    (tasks[t].pc \in {"acquire", "waiting"} /\ lock # NoTask)
      => tasks[lock].key = tasks[t].key

\* a check took the lock at once while another request was in flight and
\* another key had a record
C5_Witness ==
  /\ app = "mw"
  /\ \E t, u \in Tasks :
       /\ t # u
       /\ tasks[t].pc = "purge"
       /\ lock = t
       /\ tasks[u].pc = "call_next"
       /\ \E k \in DOMAIN request_counts :
            k # tasks[t].key /\ Len(request_counts[k]) > 0

\* C6: a key's record changes only in the purge or the append of a check of
\* that key; every other step, and every check of another key, leaves it.
C6_OnlyOwnCheckChangesRecord ==
  [][\A k \in (DOMAIN request_counts) \cup (DOMAIN request_counts') :
       (\/ Get(request_counts', k) # Get(request_counts, k)
        \/ (k \in DOMAIN request_counts') # (k \in DOMAIN request_counts))
         => /\ running # NoTask
            /\ tasks[running].key = k
            /\ tasks[running].pc \in {"purge", "append"}]_vars

\* a check has purged and appended for its key while another key holds
\* timestamps the purge would have dropped
C6_Witness ==
  \E t \in Tasks :
    /\ tasks[t].pc \in {"release", "return"}
    /\ \E k \in DOMAIN request_counts :
         /\ k # tasks[t].key
         /\ \E i \in DOMAIN request_counts[k] :
              request_counts[k][i] <= tasks[t].window_start

\* C7: a check that finds limit timestamps recorded, the latest at
\* now - W, admits.
C7_AdmitsAfterExactlyWindow ==
  \A t \in Tasks :
    (/\ Decided(t)
     /\ Len(tasks[t].pre.ts) = LimitOf(t)
     /\ \E i \in DOMAIN tasks[t].pre.ts :
          tasks[t].pre.ts[i] = tasks[t].now - Window
     /\ \A i \in DOMAIN tasks[t].pre.ts :
          tasks[t].pre.ts[i] <= tasks[t].now - Window)
      => tasks[t].pc = "append"

\* a key at capacity is admitted exactly W after its latest timestamp
C7_Witness ==
  \E t \in Tasks :
    /\ tasks[t].pc = "append"
    /\ Len(tasks[t].pre.ts) = LimitOf(t)
    /\ Len(tasks[t].pre.ts) > 0
    /\ tasks[t].pre.ts[Len(tasks[t].pre.ts)] = tasks[t].now - Window

\* C8 (as claimed): the purge keeps exactly the timestamps that are not
\* strictly older than now - W, the one equal to now - W included.
C8_PurgeKeepsBoundary ==
  \A t \in Tasks :
    tasks[t].pc = "count" =>
      Stored(t) = SelectSeq(tasks[t].pre.ts,
                            LAMBDA x : x >= tasks[t].now - Window)

\* the timestamps of the list the call found that are newer than now - W
Newer(t) ==
  SelectSeq(tasks[t].pre.ts, LAMBDA x : x > tasks[t].now - Window)

\* C8 (amended): the purge keeps exactly the timestamps newer than now - W
\* (one equal to now - W is removed); if fewer than limit remain the check
\* admits and appends now, otherwise it rejects.
C8_PurgeDropsBoundary ==
  \A t \in Tasks :
    /\ tasks[t].pc = "count" => Stored(t) = Newer(t)
    /\ tasks[t].pc = "append" =>
         Stored(t) = Newer(t) /\ Len(Newer(t)) < LimitOf(t)
    /\ tasks[t].pc = "reject" =>
         Stored(t) = Newer(t) /\ Len(Newer(t)) >= LimitOf(t)
    /\ tasks[t].pc \in {"release", "return"} =>
         Stored(t) = Append(Newer(t), tasks[t].now)
           /\ Len(Newer(t)) < LimitOf(t)

\* a purge removed a timestamp equal to now - W and kept a newer one
C8_Witness ==
  \E t \in Tasks :
    /\ tasks[t].pc = "count"
    /\ \E i \in DOMAIN tasks[t].pre.ts :
         tasks[t].pre.ts[i] = tasks[t].now - Window
    /\ Len(Stored(t)) > 0

\* C9: with a limit L >= 1, the check of a key with no record admits; and
\* when every admission of the key so far was at this same instant, the
\* check admits exactly when fewer than L were admitted.
C9_FreshKeyAndBurst ==
  \A t \in Tasks :
    (Decided(t) /\ LimitOf(t) >= 1) =>
      /\ ~tasks[t].pre.present => tasks[t].pc = "append"
      /\ (\A i \in DOMAIN Get(admitted, tasks[t].key) :
            Get(admitted, tasks[t].key)[i] = tasks[t].now)
           => (tasks[t].pc = "append"
                 <=> Len(Get(admitted, tasks[t].key)) < LimitOf(t))

\* the check after L admissions at one instant, at that instant, is rejected
C9_Witness ==
  \E t \in Tasks :
    /\ tasks[t].pc = "reject"
    /\ LimitOf(t) >= 1
    /\ Len(Get(admitted, tasks[t].key)) = LimitOf(t)
    /\ \A i \in DOMAIN Get(admitted, tasks[t].key) :
         Get(admitted, tasks[t].key)[i] = tasks[t].now

\* C10: from the purge to the end of a check at time now, no timestamp
\* stored for the key is older than now - W or later than now; the purge
\* precedes the comparison with the limit.
C10_StoredWithinWindow ==
  \A t \in Tasks :
    Purged(t) =>
      \A i \in DOMAIN Stored(t) :
        /\ Stored(t)[i] >= tasks[t].now - Window
        /\ Stored(t)[i] <= tasks[t].now

\* a purge dropped an expired timestamp and kept one still in the window
C10_Witness ==
  \E t \in Tasks :
    /\ tasks[t].pc = "count"
    /\ Len(Stored(t)) > 0
    /\ Len(tasks[t].pre.ts) > Len(Stored(t))


\* C11: every key's list is in non-decreasing order, whatever the
\* interleaving of the checks; the middleware samples now before it holds
\* the lock and appends it while it holds the lock.
C11_Chronological ==
  /\ \A k \in DOMAIN request_counts :
       \A i, j \in DOMAIN request_counts[k] :
         i < j => request_counts[k][i] <= request_counts[k][j]
  /\ \A t \in Tasks :
       app = "mw" =>
         /\ tasks[t].pc = "sample" => lock # t
         /\ tasks[t].pc = "append" => lock = t /\ tasks[t].now <= clock

\* the middleware appends a timestamp sampled before the clock moved on, to
\* a list that holds an earlier one, while another request is in flight
C11_Witness ==
  /\ app = "mw"
  /\ \E t, u \in Tasks :
       /\ tasks[t].pc = "release"
       /\ tasks[t].now < clock
       /\ Len(Stored(t)) >= 2
       /\ Stored(t)[1] < Stored(t)[Len(Stored(t))]
       /\ tasks[u].pc = "call_next"

\* C15: a step never removes a key from the map, and a key enters the map
\* only in the purge of a check for that key (the first one that reads it);
\* a key whose timestamps have all expired stays in the map with an empty
\* list.
C15_KeysOnlyGrow ==
  [][/\ DOMAIN request_counts \subseteq DOMAIN request_counts'
     /\ \A k \in (DOMAIN request_counts') \ (DOMAIN request_counts) :
          \E t \in Tasks :
            /\ tasks[t].pc = "purge"
            /\ tasks[t].key = k
            /\ tasks'[t].pc = "count"
            /\ ~tasks[t].pre.present]_vars

\* a check has purged the last timestamps of a key that was admitted
\* before, and the key is still in the map, with an empty list
C15_Witness ==
  \E t \in Tasks :
    /\ tasks[t].pc = "count"
    /\ tasks[t].pre.present
    /\ tasks[t].pre.ts # <<>>
    /\ tasks[t].key \in DOMAIN request_counts
    /\ request_counts[tasks[t].key] = <<>>

\* the number of seconds a client reads from a Retry-After value (a
\* sequence of decimal digits); -1 when the value is not one
RECURSIVE DeltaSeconds(_)
DeltaSeconds(s) ==
  IF s = <<>> \/ \E i \in DOMAIN s : \A d \in DOMAIN Digits : Digits[d] # s[i]
    THEN 0 - 1
  ELSE LET last == (CHOOSE d \in DOMAIN Digits : Digits[d] = s[Len(s)]) - 1
       IN  IF Len(s) = 1 THEN last
           ELSE DeltaSeconds(SubSeq(s, 1, Len(s) - 1)) * 10 + last

\* C14: every rejected check answers 429 with a Retry-After that reads as
\* the number of seconds of the window its purge used (now - window_start),
\* in the middleware and in the dependency.
C14_RetryAfterIsWindow ==
  [][\A t \in Tasks :
       (tasks[t].pc = "reject" /\ tasks'[t].pc # "reject") =>
         /\ last_rejected'.key = tasks[t].key
         /\ last_rejected'.status_code = 429
         /\ DeltaSeconds(last_rejected'.retry_after)
              = tasks[t].now - tasks[t].window_start]_vars

\* a check was rejected after its purge removed a timestamp that had left
\* the window: the window length decided the outcome
C14_Witness ==
  /\ last_rejected.status_code = 429
  /\ DeltaSeconds(last_rejected.retry_after) = Window
  /\ \E k \in DOMAIN admitted :
       /\ k = last_rejected.key
       /\ \E i \in DOMAIN admitted[k] :
            admitted[k][i] <= last_rejected.now - Window
       /\ \E i \in DOMAIN admitted[k] :
            admitted[k][i] > last_rejected.now - Window

\* the positions of dispatch inside the with block
MwInWithBlock(t) ==
  tasks[t].pc \in {"purge", "count", "reject", "append", "release"}

\* C12: under fair scheduling no dispatch stays at the acquisition of the
\* lock, and a dispatch leaves it only with the lock in hand, so every
\* dispatch that tries to acquire the lock gets it; the lock is free again
\* and again, and it is held exactly inside the with block, so it is free
\* after the 429 return as after the admitted exit.
C12_LockAcquiredAndReleased ==
  /\ []<>(\A t \in Tasks : tasks[t].pc \notin {"acquire", "waiting"})
  /\ [][\A t \in Tasks :
          (tasks[t].pc \in {"acquire", "waiting"}
             /\ tasks'[t].pc \notin {"acquire", "waiting"}) => lock' = t]_vars
  /\ []<>(lock = NoTask)
  /\ [](\A t \in Tasks : app = "mw" => (lock = t <=> MwInWithBlock(t)))

\* a dispatch is about to acquire the lock right after another one left the
\* with block through the 429 return
C12_Witness ==
  /\ app = "mw"
  /\ lock = NoTask
  /\ last_rejected.status_code = 429
  /\ \E t, u \in Tasks :
       /\ tasks[t].pc = "acquire"
       /\ tasks[u].pc = "idle"
       /\ tasks[t].now = last_rejected.now
       /\ tasks[t].key = last_rejected.key

\* C13: a dispatch is abandoned only where it is suspended, which is before
\* it has entered the with block or after it has left it: what it did to
\* its key's record is nothing or the whole of a completed check, the
\* cancellation itself changes no record, and the lock is not left with the
\* abandoned dispatch.
C13_CancelLeavesRecordWhole ==
  /\ [][\A t \in Tasks :
          (tasks[t].pc # "cancelled" /\ tasks'[t].pc = "cancelled") =>
            /\ tasks[t].pc \in {"waiting", "call_next"}
            /\ ~MwInWithBlock(t)
            /\ request_counts' = request_counts
            /\ lock' # t]_vars
  /\ [](\A t \in Tasks : tasks[t].pc = "cancelled" => lock # t)

\* a dispatch has been abandoned; the map holds an admitted timestamp of
\* this instant and the lock is free
C13_Witness ==
  /\ app = "mw"
  /\ lock = NoTask
  /\ \E t \in Tasks : tasks[t].pc = "cancelled"
  /\ \E k \in DOMAIN request_counts :
       /\ request_counts[k] # <<>>
       /\ request_counts[k][Len(request_counts[k])] = clock

\* the scopes a token's own "scopes" claim lists
ClaimedScopes(token) ==
  IF token.scopes.type = "list" THEN token.scopes.items ELSE {}

\* C16 (as claimed): get_current_user returns a user only for a token that
\* decodes, has a "sub" and lists every required scope in its "scopes"
\* claim; a token that does not decode or has no "sub" gets 401, and any
\* other token that lacks a required scope gets 403.
C16_UserOr401Or403 ==
  auth.fn = "get_current_user" =>
    LET decodes == auth.token.valid
        has_sub == auth.token.sub # None
        scoped  == auth.security_scopes \subseteq ClaimedScopes(auth.token)
    IN  /\ auth.outcome.kind = "return" => decodes /\ has_sub /\ scoped
        /\ ~(decodes /\ has_sub) =>
             /\ auth.outcome.kind = "HTTPException"
             /\ auth.outcome.status_code = 401
        /\ (decodes /\ has_sub /\ ~scoped) =>
             /\ auth.outcome.kind = "HTTPException"
             /\ auth.outcome.status_code = 403

\* C17: get_current_user_or_api_key returns a User exactly when the scheme
\* is bearer and the token decodes to a payload with a non-empty "sub";
\* otherwise it returns None exactly when the API key equals API_KEY (also
\* next to a bearer token that failed); in every other case it raises 401.
C17_JwtOrApiKey ==
  auth.fn = "get_current_user_or_api_key" =>
    LET c == auth.credentials
        jwt_ok == /\ c # NoCredentials
                  /\ c.scheme \in {"Bearer", "bearer"}
                  /\ c.credentials.valid
                  /\ c.credentials.sub \notin {None, ""}
        key_ok == auth.api_key = API_KEY
    IN  /\ jwt_ok <=>
             /\ auth.outcome.kind = "return"
             /\ \E user \in auth.outcome.value :
                  user.username = c.credentials.sub
        /\ (~jwt_ok /\ key_ok) <=> auth.outcome = Returns(NoneUser)
        /\ (~jwt_ok /\ ~key_ok) <=>
             /\ auth.outcome.kind = "HTTPException"
             /\ auth.outcome.status_code = 401

\* a bearer token that does not decode accompanies the valid API key, and
\* the call returns None
C17_Witness ==
  /\ auth.fn = "get_current_user_or_api_key"
  /\ auth.credentials # NoCredentials
  /\ auth.credentials.scheme = "Bearer"
  /\ ~auth.credentials.credentials.valid
  /\ auth.api_key = API_KEY
  /\ auth.outcome = Returns(NoneUser)

\* C18 (as claimed): SecurityHeadersMiddleware is the outermost middleware
\* of create_app, and every response that leaves the app carries the
\* security headers, the 429 of RateLimitMiddleware and the 500 of
\* ErrorHandlingMiddleware included.
C18_SecurityHeadersOnEveryResponse ==
  http.phase = "sent" =>
    /\ Stack[1] = "SecurityHeadersMiddleware"
    /\ SecurityHeaders \subseteq http.response.headers

\* C19 (as claimed): request.state.request_id is set before
\* LoggingMiddleware or ErrorHandlingMiddleware reads it; neither reads
\* "unknown".
C19_RequestIdNeverUnknown ==
  http.phase # "idle" =>
    /\ http.logging_request_id # "unknown"
    /\ http.error_request_id # "unknown"

\* the exception a failed call_next or commit of request r left to handle
FirstFailure(r) ==
  IF r.call_next # "return" THEN
    (IF r.call_next = "Exception" THEN "HandlerError" ELSE "CancelledError")
  ELSE IF r.commit = "Exception" THEN "CommitError" ELSE "CancelledError"

\* call_next or the commit of request r has raised
Failed(r) ==
  \/ r.call_next \in {"Exception", "CancelledError"}
  \/ r.commit \in {"Exception", "CancelledError"}

\* C20 (as claimed): commit only after the handler returned; whenever the
\* handler or the commit raises, rollback is invoked and that exception
\* reaches the caller; no request ends with neither commit nor rollback.
C20_CommitOrRollbackAlways ==
  \A t \in Tasks :
    LET r == session.reqs[t]
    IN  /\ r.commit # NotCalled => r.call_next = "return"
        /\ (r.pc = "done" /\ Failed(r)) =>
             /\ r.rollback # NotCalled
             /\ r.raised = FirstFailure(r)
        /\ r.pc = "done" => (r.commit # NotCalled \/ r.rollback # NotCalled)

\* C20 (amended): each request works with a session of its own; commit is
\* invoked only after the handler returned; when the handler or the commit
\* raises an exception derived from Exception, rollback is invoked and, if
\* the rollback returns, that exception reaches the caller; a request ends
\* with neither commit nor rollback exactly when call_next ended with
\* CancelledError; the session is closed at the end in every case.
C20_CommitOrRollbackUnlessCancelled ==
  /\ \A t, u \in Tasks :
       (t # u /\ session.reqs[t].pc # "idle" /\ session.reqs[u].pc # "idle")
         => session.reqs[t].sid # session.reqs[u].sid
  /\ \A t \in Tasks :
       LET r == session.reqs[t]
       IN  /\ r.pc # "idle" => r.state_db = r.sid
           /\ r.commit # NotCalled => r.call_next = "return"
           /\ (r.pc = "done" /\ Failed(r) /\ IsException(FirstFailure(r))) =>
                /\ r.rollback # NotCalled
                /\ r.rollback = "return" => r.raised = FirstFailure(r)
           /\ r.pc = "done" =>
                /\ r.closed
                /\ (r.commit = NotCalled /\ r.rollback = NotCalled)
                     <=> r.call_next = "CancelledError"
                /\ r.raised = None <=> r.commit = "return"

\* one request ended after its handler raised, with the rollback done and
\* the handler's exception re-raised, while the request of another task,
\* with another session, had its commit done
C20_Witness ==
  \E t, u \in Tasks :
    /\ session.reqs[t].pc = "done"
    /\ session.reqs[t].call_next = "Exception"
    /\ session.reqs[t].rollback = "return"
    /\ session.reqs[t].raised = "HandlerError"
    /\ session.reqs[u].pc = "done"
    /\ session.reqs[u].commit = "return"
    /\ session.reqs[u].sid > session.reqs[t].sid

\* the place of ErrorHandlingMiddleware in the stack
ErrorHandlingPos ==
  CHOOSE i \in DOMAIN Stack : Stack[i] = "ErrorHandlingMiddleware"

\* C21 (as claimed): no exception of the downstream chain gets past
\* ErrorHandlingMiddleware: nothing is ever propagating above it and no
\* request of the app ends with an exception.
C21_NothingPropagates ==
  /\ (http.phase = "raising" => http.pos >= ErrorHandlingPos)
  /\ http.phase # "failed"

\* C21 (amended): an exception derived from Exception that reaches
\* ErrorHandlingMiddleware is turned into a 500 response whose body carries
\* the request id (read from request.state, "unknown" when unset); a
\* response coming from downstream is passed on unchanged; only an exception
\* that does not derive from Exception (asyncio.CancelledError) is
\* propagating above it.
C21_CatchesExceptions ==
  /\ [][/\ (Raising("ErrorHandlingMiddleware") /\ http.exc = "Exception") =>
            /\ http'.phase = "response"
            /\ http'.response.status_code = 500
            /\ http'.response.body_request_id =
                 getattr_request_id(http.state_request_id)
            /\ http'.pos = http.pos - 1
        /\ (Raising("ErrorHandlingMiddleware") /\ http.exc # "Exception") =>
            /\ http'.phase = "raising"
            /\ http'.exc = http.exc
        /\ Returning("ErrorHandlingMiddleware") =>
            /\ http'.phase = "response"
            /\ http'.response = http.response]_vars
  /\ []((http.phase = "raising" /\ http.pos < ErrorHandlingPos)
          => http.exc = "CancelledError")
  /\ [](http.phase = "failed" => http.exc = "CancelledError")

\* the app has sent the 500 of ErrorHandlingMiddleware, whose body carries
\* the id the client gave in X-Request-ID
C21_Witness ==
  /\ http.phase = "sent"
  /\ http.handler = "Exception"
  /\ http.response.status_code = 500
  /\ http.x_request_id # None
  /\ http.response.body_request_id = http.x_request_id

\* the fields C22 speaks of: those of the request, and id and owner_id
ClaimedFields == UpdateFields \cup {"id", "owner_id"}

\* C22: update_item and partial_update_item change the table only for the
\* owner of the item (another user gets 403 and the table stays as it is),
\* and then every field the request provides takes the provided value and
\* every other field of the request model, and id and owner_id, keep theirs;
\* no other item changes.
C22_OwnerUpdatesProvidedFields ==
  [][crud' # crud =>
       LET c == crud'.last
           before == crud.items
           after == crud'.items
       IN  /\ c.fn \in {"update_item", "partial_update_item"}
           /\ DOMAIN after = DOMAIN before
           /\ (c.item_id \in DOMAIN before
                 /\ before[c.item_id].owner_id # c.user_id) =>
                c.status_code = 403
           /\ c.status_code # 200 => after = before
           /\ c.status_code = 200 =>
                /\ before[c.item_id].owner_id = c.user_id
                /\ \A i \in DOMAIN before \ {c.item_id} :
                     after[i] = before[i]
                /\ \A f \in c.item_data.fields_set :
                     after[c.item_id][f] = c.item_data[f]
                /\ \A f \in ClaimedFields \ c.item_data.fields_set :
                     after[c.item_id][f] = before[c.item_id][f]]_vars

\* the owner sent a PATCH with the price only: the price is the new one and
\* the name is the one the item had
C22_Witness ==
  /\ crud.last.fn = "partial_update_item"
  /\ crud.last.status_code = 200
  /\ crud.last.item_data.fields_set = {"price"}
  /\ crud.items[1].price = {7}
  /\ crud.items[1].name = FirstItem.name
  /\ crud.items[1].updated_at # {}

\* the 0-based indices below n of the orders whose customer is unknown,
\* in input order
RECURSIVE UnknownIndices(_)
UnknownIndices(n) ==
  IF n = 0 THEN <<>>
  ELSE IF bulk.orders[n].customer_id \in bulk.customers_db
       THEN UnknownIndices(n - 1)
       ELSE Append(UnknownIndices(n - 1), n - 1)

\* C23: when process_bulk_orders returns, every input order was processed
\* once and in input order: the orders of unknown customers are in
\* 'errors' with their indices, every other order added one id to
\* 'order_ids' and one entry to orders_db, and
\* successful + failed = total = the number of input orders.
C23_BulkProcessesEachOrderOnce ==
  bulk.pc = "returned" =>
    \A r \in bulk.result :
      /\ r.total = Len(bulk.orders)
      /\ r.successful + r.failed = r.total
      /\ r.successful = Len(r.order_ids)
      /\ r.failed = Len(r.errors)
      /\ [k \in DOMAIN r.errors |-> r.errors[k].index]
           = UnknownIndices(Len(bulk.orders))
      /\ \A k \in DOMAIN r.order_ids : r.order_ids[k] \in dict_keys(bulk.orders_db)
      /\ Cardinality(dict_keys(bulk.orders_db))
           = Cardinality(dict_keys(bulk.before)) + Len(r.order_ids)

\* C25: in every reachable state, whatever the interleaving of the checks,
\* no key has more timestamps stored than its limit: requests_per_minute in
\* the middleware, RATE_LIMIT for an ip key and 2 * RATE_LIMIT for a user
\* key in the dependency (for a limit that is a count, i.e. not negative).
C25_StoredAtMostLimit ==
  \A k \in DOMAIN request_counts :
    KeyLimit(k) >= 0 => Len(request_counts[k]) <= KeyLimit(k)

\* a check is rejected on a key that is full, while the request of another
\* task is in flight
C25_Witness ==
  \E t \in Tasks, u \in Tasks :
    /\ t # u
    /\ tasks[t].pc = "reject"
    /\ KeyLimit(tasks[t].key) >= 1
    /\ Len(Stored(t)) = KeyLimit(tasks[t].key)
    /\ tasks[u].pc # "idle"

\* C26: given the same observations (key, arrival time), the same limit and
\* the 60-second window, rate_limit and RateLimitMiddleware.dispatch take
\* the same decision at every step and hold the same list of timestamps for
\* every key after every step.
C26_CountersEquivalent ==
  /\ pair.last.mw_admitted = pair.last.dep_admitted
  /\ pair.mw = pair.dep

\* both counters have rejected an observation of a key that is full, after
\* admitting one of the other key
C26_Witness ==
  /\ pair.last.observed
  /\ ~pair.last.mw_admitted
  /\ ~pair.last.dep_admitted
  /\ Len(Get(pair.mw, pair.last.key)) >= 1
  /\ \E k \in DOMAIN pair.dep : k # pair.last.key /\ Len(pair.dep[k]) >= 1

====
